---- MODULE Spec2Model ----
(***************************************************************************)
(* The pipeline engine of signal-benchmarks: ValuePipeline leaves,         *)
(* Pipeline nodes with lazily recomputed values, the producer/consumer     *)
(* edge maps (LinearMap) and the ambient activeConsumer slot.              *)
(*                                                                         *)
(* The engine is single-threaded and every call is synchronous, so a       *)
(* top-level call (a read of .value, setValue, updateValue, mutateValue)   *)
(* is one action.  The nested calls it makes are operators from an engine  *)
(* state record to the engine state record after the call.  A thrown       *)
(* Error is the field err of that record: every caller returns at once     *)
(* when a callee has set it, except the finally block of recomputeValue.   *)
(***************************************************************************)
EXTENDS Integers, Sequences, FiniteSets, TLC

\* ------------------------------------------------------------------ bounds
\* The leaves are written at most MaxWrites times in all.
MaxWrites == 2

\* --------------------------------------------------------------- constants
MOD_FACTOR == 2
\* The two sentinels of Pipeline._value.  Real values are 0 .. MOD_FACTOR-1.
UNSET == -1
COMPUTING == -2
\* producerAccessed turns a LinearMap of this size into a Map.
UPGRADE_SIZE == 100

\* What LinearMap.get returns for a missing key (versions start at 1).
undefined == 0
\* A tombstoned key slot of LinearMap.internalArray.
null == "null"
\* activeConsumer === undefined.
noConsumer == "undefined"

\* --------------------------------------------------------------- LinearMap
\* internalArray holds one <<key, value>> pair per two slots of the source's
\* flat array; a deleted pair is <<null, undefined>>.
NewLinearMap == [internalArray |-> << >>, size |-> 0, hashed |-> FALSE]

Tombstone == [k |-> null, v |-> undefined]

FirstIndex(arr, key) ==
    IF \E i \in 1..Len(arr) : arr[i].k = key
    THEN CHOOSE i \in 1..Len(arr) :
             arr[i].k = key /\ \A j \in 1..(i-1) : arr[j].k # key
    ELSE 0

get(m, key) ==
    LET i == FirstIndex(m.internalArray, key)
    IN  IF i = 0 THEN undefined ELSE m.internalArray[i].v

toTuples(m) ==
    SelectSeq(m.internalArray, LAMBDA e : e.k # null /\ e.v # undefined)

\* set that counts the key also when it only replaces the key's value.
setAlwaysCounts(m, key, value) ==
    LET arr == m.internalArray
        i == IF \E j \in 1..Len(arr) : arr[j].k = key
             THEN CHOOSE j \in 1..Len(arr) : arr[j].k = key ELSE 0
        nullIndex == IF \E j \in 1..Len(arr) : arr[j].k = null
                     THEN CHOOSE j \in 1..Len(arr) :
                              arr[j].k = null /\ \A h \in 1..(j-1) : arr[h].k # null
                     ELSE 0
    IN  IF i # 0
        THEN [m EXCEPT !.size = @ + 1, !.internalArray[i].v = value]
        ELSE IF nullIndex # 0 /\ ~m.hashed
        THEN [m EXCEPT !.size = @ + 1,
                       !.internalArray[nullIndex] = [k |-> key, v |-> value]]
        ELSE [m EXCEPT !.size = @ + 1,
                       !.internalArray = Append(@, [k |-> key, v |-> value])]

\* A Map (hashed) appends a missing key; a LinearMap first reuses the first
\* tombstoned slot.
set(m, key, value) ==
    LET arr == m.internalArray
        i == FirstIndex(arr, key)
        nullIndex == IF m.hashed THEN 0 ELSE FirstIndex(arr, null)
    IN  IF i # 0
        THEN [m EXCEPT !.internalArray[i].v = value]
        ELSE IF nullIndex # 0
        THEN [m EXCEPT !.size = @ + 1,
                       !.internalArray[nullIndex] = [k |-> key, v |-> value]]
        ELSE [m EXCEPT !.size = @ + 1,
                       !.internalArray = Append(@, [k |-> key, v |-> value])]

delete(m, key) ==
    LET arr == m.internalArray
        i == FirstIndex(arr, key)
    IN  IF i = 0 THEN m
        ELSE IF m.hashed
        THEN [m EXCEPT !.size = @ - 1,
                       !.internalArray =
                           SubSeq(arr, 1, i - 1) \o SubSeq(arr, i + 1, Len(arr))]
        ELSE [m EXCEPT !.size = @ - 1, !.internalArray[i] = Tombstone]

defragment(m) == [m EXCEPT !.internalArray = toTuples(m)]

\* new Map(m.toTuples())
NewMap(m) == [internalArray |-> toTuples(m), size |-> Len(toTuples(m)), hashed |-> TRUE]

Keys(m) == {m.internalArray[i].k : i \in 1..Len(m.internalArray)} \ {null}

\* A LinearMap under test: the keys and values its callers use, the map
\* (map), the key -> value map it stands for (ref, undefined for no entry),
\* an iteration in progress (iterating), the tuples that iteration started
\* with (tuples), how many of them it has yielded (pos), what ref was when it
\* started (live), and whether a set has reused a tombstoned slot (reused).
LMKeys == {"x", "y", "z"}
LMValues == {1, 2}

NewLM ==
    [map |-> NewLinearMap, ref |-> [k \in LMKeys |-> undefined],
     iterating |-> FALSE, tuples |-> << >>, pos |-> 0,
     live |-> [k \in LMKeys |-> undefined], reused |-> FALSE]

\* ------------------------------------------------------------------ graphs
\* A node is a ValuePipeline (kind "value") or a Pipeline whose calculate()
\* is one of:
\*   "sum"    MiddlePipe.calculate: the sum of deps[i].value, mod MOD_FACTOR
\*   "cond"   deps[1].value ? deps[2].value : deps[3].value
\*   "write"  reads deps[1].value, then calls deps[1].setValue on another value
\*   "throw"  reads deps[1].value and throws when it is 1
Leaf == [kind |-> "value", deps |-> << >>]
Calc(kind, deps) == [kind |-> kind, deps |-> deps]

ChainGraph ==
    [n \in {"a", "b", "c", "d"} |->
        CASE n = "c" -> Calc("sum", <<"a", "b">>)
          [] n = "d" -> Calc("sum", <<"c">>)
          [] OTHER -> Leaf]

DiamondGraph ==
    [n \in {"a", "b", "c", "d"} |->
        CASE n = "b" -> Calc("sum", <<"a">>)
          [] n = "c" -> Calc("sum", <<"a">>)
          [] n = "d" -> Calc("sum", <<"b", "c">>)
          [] OTHER -> Leaf]

CycleGraph ==
    [n \in {"a", "b", "c"} |->
        CASE n = "a" -> Calc("sum", <<"c", "b">>)
          [] n = "b" -> Calc("sum", <<"a">>)
          [] OTHER -> Leaf]

CondGraph ==
    [n \in {"a", "b", "c", "d"} |->
        CASE n = "d" -> Calc("cond", <<"a", "b", "c">>)
          [] OTHER -> Leaf]

WriteGraph ==
    [n \in {"a", "b", "c"} |->
        CASE n = "b" -> Calc("write", <<"a">>)
          [] n = "c" -> Calc("sum", <<"b">>)
          [] OTHER -> Leaf]

ThrowGraph ==
    [n \in {"a", "b", "c"} |->
        CASE n = "b" -> Calc("throw", <<"a">>)
          [] n = "c" -> Calc("sum", <<"b">>)
          [] OTHER -> Leaf]

\* A diamond under a Pipeline: d reaches p through b and through c.
SharedGraph ==
    [n \in {"a", "p", "b", "c", "d"} |->
        CASE n = "p" -> Calc("sum", <<"a">>)
          [] n = "b" -> Calc("sum", <<"p">>)
          [] n = "c" -> Calc("sum", <<"p">>)
          [] n = "d" -> Calc("sum", <<"b", "c">>)
          [] OTHER -> Leaf]

Graphs == {ChainGraph, DiamondGraph, CycleGraph, CondGraph, WriteGraph, ThrowGraph,
           SharedGraph}

\* ------------------------------------------------------------------- state
VARIABLES
    graph,            \* the nodes the host built and each node's calculate()
    _value,           \* ValuePipeline._value / Pipeline._value
    valueVersion,     \* Producer.valueVersion
    trackingVersion,  \* Pipeline.trackingVersion (0 for a leaf: it has none)
    stale,            \* Pipeline.stale: "false", "true" or the notifier
    consumers,        \* Producer.consumers: ref of consumer -> trackingVersion
    producers,        \* Pipeline.producers: producer -> valueVersion
    activeConsumer,   \* the module-level activeConsumer
    reclaimed,        \* the Pipelines the garbage collector has reclaimed
    lastOp,           \* the last top-level call: what was called and on what
    err,              \* the Error that call threw, "none" if it returned
    ret,              \* the value that call returned (a read)
    trace,            \* what that call did, in order
    watch,            \* the Pipeline whose reads are compared with each other
    seen,             \* the leaves as the last read of watch left them
    lm                \* a LinearMap on its own, with the map it stands for

vars == <<graph, watch, _value, valueVersion, trackingVersion, stale, consumers,
          producers, activeConsumer, reclaimed, lastOp, err, ret, trace, seen,
          lm>>

Nodes == DOMAIN graph
Leaves == {n \in Nodes : graph[n].kind = "value"}
Pipelines == Nodes \ Leaves

\* The engine state the operators below work on.
State ==
    [_value |-> _value, valueVersion |-> valueVersion,
     trackingVersion |-> trackingVersion, stale |-> stale,
     consumers |-> consumers, producers |-> producers,
     activeConsumer |-> activeConsumer, reclaimed |-> reclaimed,
     err |-> "none", ret |-> 0, changed |-> FALSE, trace |-> << >>]

\* WeakRef.deref(): the consumer, or undefined once it is reclaimed.
deref(s, consumerRef) ==
    IF consumerRef \in s.reclaimed THEN noConsumer ELSE consumerRef

\* Some producer recorded by n, on an edge of n's current trackingVersion,
\* has another valueVersion than the one n recorded.
ProducerChanged(s, n) ==
    \E p \in Keys(s.producers[n]) :
        /\ get(s.consumers[p], n) = s.trackingVersion[n]
        /\ s.valueVersion[p] # get(s.producers[n], p)

\* The producers n recorded on an edge of its current trackingVersion.
CurrentProducers(s, n) ==
    {p \in Keys(s.producers[n]) : get(s.consumers[p], n) = s.trackingVersion[n]}

\* One entry of the trace: the node as the engine finds it at that point.
Ev(kind, n, s) ==
    [ev |-> kind, node |-> n, tv |-> s.trackingVersion[n],
     vv |-> s.valueVersion[n], val |-> s._value[n], stale |-> s.stale[n],
     chg |-> ProducerChanged(s, n), cur |-> CurrentProducers(s, n),
     rec |-> s.producers[n], ac |-> s.activeConsumer]

Log(s, kind, n) == [s EXCEPT !.trace = Append(@, Ev(kind, n, s))]

Throw(s, e) == [s EXCEPT !.err = e]

\* ------------------------------------------------------------------ engine
\* A call of one engine function by another: Call(f, s, <<x, ...>>) is
\* f(s, x, ...), defined below, after the functions.
RECURSIVE Call(_, _, _)
RECURSIVE SumDeps(_, _, _, _)
RECURSIVE NotifyEach(_, _, _, _)
RECURSIVE PollEach(_, _, _, _, _)

setActiveConsumer(s, consumer) == [s EXCEPT !.activeConsumer = consumer]

\* producerAccessed that records the producer with the consumer and forgets
\* to record the consumer with the producer.
producerAccessedOneWay(s, producer) ==
    IF s.activeConsumer = noConsumer THEN s
    ELSE
        LET ac == s.activeConsumer
            ps == set(s.producers[ac], producer, s.valueVersion[producer])
            ps2 == IF ~ps.hashed /\ ps.size = UPGRADE_SIZE THEN NewMap(ps) ELSE ps
        IN  [s EXCEPT !.producers[ac] = ps2]

\* Make a dependency between the producer and the active consumer.
producerAccessed(s, producer) ==
    IF s.activeConsumer = noConsumer THEN s
    ELSE
        LET ac == s.activeConsumer
            cs == set(s.consumers[producer], ac, s.trackingVersion[ac])
            cs2 == IF ~cs.hashed /\ cs.size = UPGRADE_SIZE THEN NewMap(cs) ELSE cs
            ps == set(s.producers[ac], producer, s.valueVersion[producer])
            ps2 == IF ~ps.hashed /\ ps.size = UPGRADE_SIZE THEN NewMap(ps) ELSE ps
        IN  [s EXCEPT !.consumers[producer] = cs2, !.producers[ac] = ps2]

\* get value() of a ValuePipeline and of a Pipeline; the value is in ret.
value(s, n) ==
    IF graph[n].kind = "value"
    THEN [producerAccessed(s, n) EXCEPT !.ret = s._value[n]]
    ELSE
        LET t == Call("checkForActuallyChangedValue", s, <<n>>)
        IN  IF t.err # "none" THEN t
            ELSE [producerAccessed(t, n) EXCEPT !.ret = t._value[n]]

\* MiddlePipe.calculate's loop over this.deps, from deps[i] on.
SumDeps(s, deps, i, sum) ==
    IF i > Len(deps) THEN [s EXCEPT !.ret = sum % MOD_FACTOR]
    ELSE
        LET t == Call("value", s, <<deps[i]>>)
        IN  IF t.err # "none" THEN t
            ELSE SumDeps(t, deps, i + 1, sum + t.ret)

\* calculate() of Pipeline n; the new value is in ret.
calculate(s0, n) ==
    LET s == Log(s0, "calculate", n)
        deps == graph[n].deps
        first == Call("value", s, <<deps[1]>>)
    IN  CASE graph[n].kind = "sum" -> SumDeps(s, deps, 1, 0)
          [] graph[n].kind = "cond" ->
                IF first.err # "none" THEN first
                ELSE IF first.ret = 1 THEN Call("value", first, <<deps[2]>>)
                ELSE Call("value", first, <<deps[3]>>)
          [] graph[n].kind = "write" ->
                IF first.err # "none" THEN first
                ELSE LET t == Call("setValue", first,
                                    <<deps[1], (first.ret + 1) % MOD_FACTOR>>)
                     IN  IF t.err # "none" THEN t ELSE [t EXCEPT !.ret = first.ret]
          [] graph[n].kind = "throw" ->
                IF first.err # "none" THEN first
                ELSE IF first.ret = 1 THEN Throw(first, "calculate")
                ELSE first

\* recomputeValue that returns what is cached when the node is Computing.
recomputeValueNoCycleError(s, n) ==
    IF s._value[n] = COMPUTING THEN s
    ELSE
        LET oldValue == s._value[n]
            s1 == [Log(s, "recomputeValue", n) EXCEPT
                      !._value[n] = COMPUTING, !.trackingVersion[n] = @ + 1]
            prevConsumer == s1.activeConsumer
            s2 == Call("calculate", setActiveConsumer(s1, n), <<n>>)
            s3 == setActiveConsumer(s2, prevConsumer)
        IN  IF s2.err # "none" THEN s3
            ELSE IF s2.ret = oldValue
            THEN Log([s3 EXCEPT !.stale[n] = "false", !._value[n] = oldValue],
                     "recomputed", n)
            ELSE Log([s3 EXCEPT !.stale[n] = "false", !._value[n] = s2.ret,
                                !.valueVersion[n] = @ + 1],
                     "recomputed", n)

\* recomputeValue that restores activeConsumer only when calculate() returns.
recomputeValueNoFinally(s, n) ==
    IF s._value[n] = COMPUTING THEN Throw(s, "Pipeline is circular")
    ELSE
        LET oldValue == s._value[n]
            s1 == [Log(s, "recomputeValue", n) EXCEPT
                      !._value[n] = COMPUTING, !.trackingVersion[n] = @ + 1]
            prevConsumer == s1.activeConsumer
            s2 == Call("calculate", setActiveConsumer(s1, n), <<n>>)
            s3 == setActiveConsumer(s2, prevConsumer)
        IN  IF s2.err # "none" THEN s2
            ELSE IF s2.ret = oldValue
            THEN Log([s3 EXCEPT !.stale[n] = "false", !._value[n] = oldValue],
                     "recomputed", n)
            ELSE Log([s3 EXCEPT !.stale[n] = "false", !._value[n] = s2.ret,
                                !.valueVersion[n] = @ + 1],
                     "recomputed", n)

\* recomputeValue that increments trackingVersion after calculate().
recomputeValueLateIncrement(s, n) ==
    IF s._value[n] = COMPUTING THEN Throw(s, "Pipeline is circular")
    ELSE
        LET oldValue == s._value[n]
            s1 == [Log(s, "recomputeValue", n) EXCEPT !._value[n] = COMPUTING]
            prevConsumer == s1.activeConsumer
            s2 == Call("calculate", setActiveConsumer(s1, n), <<n>>)
            s3 == [setActiveConsumer(s2, prevConsumer) EXCEPT
                      !.trackingVersion[n] = @ + 1]
        IN  IF s2.err # "none" THEN s3
            ELSE IF s2.ret = oldValue
            THEN Log([s3 EXCEPT !.stale[n] = "false", !._value[n] = oldValue],
                     "recomputed", n)
            ELSE Log([s3 EXCEPT !.stale[n] = "false", !._value[n] = s2.ret,
                                !.valueVersion[n] = @ + 1],
                     "recomputed", n)

\* recomputeValue that leaves the stale flag as it found it.
recomputeValueStaysStale(s, n) ==
    IF s._value[n] = COMPUTING THEN Throw(s, "Pipeline is circular")
    ELSE
        LET oldValue == s._value[n]
            s1 == [Log(s, "recomputeValue", n) EXCEPT
                      !._value[n] = COMPUTING, !.trackingVersion[n] = @ + 1]
            prevConsumer == s1.activeConsumer
            s2 == Call("calculate", setActiveConsumer(s1, n), <<n>>)
            s3 == setActiveConsumer(s2, prevConsumer)
        IN  IF s2.err # "none" THEN s3
            ELSE IF s2.ret = oldValue
            THEN Log([s3 EXCEPT !._value[n] = oldValue], "recomputed", n)
            ELSE Log([s3 EXCEPT !._value[n] = s2.ret, !.valueVersion[n] = @ + 1],
                     "recomputed", n)

\* recomputeValue whose finally block also puts the old value back when
\* calculate() threw.
recomputeValueResets(s, n) ==
    IF s._value[n] = COMPUTING THEN Throw(s, "Pipeline is circular")
    ELSE
        LET oldValue == s._value[n]
            s1 == [Log(s, "recomputeValue", n) EXCEPT
                      !._value[n] = COMPUTING, !.trackingVersion[n] = @ + 1]
            prevConsumer == s1.activeConsumer
            s2 == Call("calculate", setActiveConsumer(s1, n), <<n>>)
            s3 == setActiveConsumer(s2, prevConsumer)
        IN  IF s2.err # "none" THEN [s3 EXCEPT !._value[n] = oldValue]
            ELSE IF s2.ret = oldValue
            THEN Log([s3 EXCEPT !.stale[n] = "false", !._value[n] = oldValue],
                     "recomputed", n)
            ELSE Log([s3 EXCEPT !.stale[n] = "false", !._value[n] = s2.ret,
                                !.valueVersion[n] = @ + 1],
                     "recomputed", n)

\* recomputeValue that increments valueVersion whatever calculate() returned.
recomputeValueAlwaysNewVersion(s, n) ==
    IF s._value[n] = COMPUTING THEN Throw(s, "Pipeline is circular")
    ELSE
        LET oldValue == s._value[n]
            s1 == [Log(s, "recomputeValue", n) EXCEPT
                      !._value[n] = COMPUTING, !.trackingVersion[n] = @ + 1]
            prevConsumer == s1.activeConsumer
            s2 == Call("calculate", setActiveConsumer(s1, n), <<n>>)
            s3 == setActiveConsumer(s2, prevConsumer)
        IN  IF s2.err # "none" THEN s3
            ELSE Log([s3 EXCEPT !.stale[n] = "false", !._value[n] = s2.ret,
                                !.valueVersion[n] = @ + 1],
                     "recomputed", n)

recomputeValue(s, n) ==
    IF s._value[n] = COMPUTING THEN Throw(s, "Pipeline is circular")
    ELSE
        LET oldValue == s._value[n]
            s1 == [Log(s, "recomputeValue", n) EXCEPT
                      !._value[n] = COMPUTING, !.trackingVersion[n] = @ + 1]
            prevConsumer == s1.activeConsumer
            s2 == Call("calculate", setActiveConsumer(s1, n), <<n>>)
            \* finally
            s3 == setActiveConsumer(s2, prevConsumer)
        IN  IF s2.err # "none" THEN s3
            ELSE IF s2.ret = oldValue
            THEN Log([s3 EXCEPT !.stale[n] = "false", !._value[n] = oldValue],
                     "recomputed", n)
            ELSE Log([s3 EXCEPT !.stale[n] = "false", !._value[n] = s2.ret,
                                !.valueVersion[n] = @ + 1],
                     "recomputed", n)

\* checkForActuallyChangedValue that recomputes every stale node, unpolled.
checkWithoutPolling(s, n) ==
    IF graph[n].kind = "value" THEN s
    ELSE IF s.stale[n] = "false" THEN s
    ELSE Call("recomputeValue", s, <<n>>)

\* checkForActuallyChangedValue that caches nothing: every access recomputes.
checkAlwaysRecomputes(s, n) ==
    IF graph[n].kind = "value" THEN s
    ELSE Call("recomputeValue", s, <<n>>)

\* checkForActuallyChangedValue that marks a node that holds a value clean
\* whatever the poll of its producers answered.
checkPollsOnly(s, n) ==
    IF graph[n].kind = "value" THEN s
    ELSE IF s.stale[n] = "false" THEN s
    ELSE IF s._value[n] # UNSET /\ s._value[n] # COMPUTING
    THEN
        LET t == Call("consumerPollValueStatus", s, <<n, s.stale[n]>>)
        IN  IF t.err # "none" THEN t ELSE [t EXCEPT !.stale[n] = "false"]
    ELSE Call("recomputeValue", s, <<n>>)

\* Clears the stale flag when the value is determined to not be stale.
\* A ValuePipeline does nothing.
checkForActuallyChangedValue(s, n) ==
    IF graph[n].kind = "value" THEN s
    ELSE IF s.stale[n] = "false" THEN s
    ELSE IF s._value[n] # UNSET /\ s._value[n] # COMPUTING
    THEN
        LET t == Call("consumerPollValueStatus", s, <<n, s.stale[n]>>)
        IN  IF t.err # "none" THEN t
            ELSE IF ~t.changed THEN [t EXCEPT !.stale[n] = "false"]
            ELSE Call("recomputeValue", t, <<n>>)
    ELSE Call("recomputeValue", s, <<n>>)

\* Checks if a producer has a current value which is different than the value
\* last seen at a specific version by a consumer; the answer is in changed.
producerPollStatus(s, producer, lastSeenValueVersion) ==
    IF s.valueVersion[producer] # lastSeenValueVersion
    THEN [s EXCEPT !.changed = TRUE]
    ELSE
        LET t == Call("checkForActuallyChangedValue", s, <<producer>>)
        IN  IF t.err # "none" THEN t
            ELSE [t EXCEPT !.changed = (t.valueVersion[producer] # lastSeenValueVersion)]

\* The loop of consumerPollValueStatus over the tuples the iteration of
\* consumer.producers started with, from tuples[i] on.
PollEach(s, consumer, tuples, i, skipProducer) ==
    IF i > Len(tuples) THEN [s EXCEPT !.changed = FALSE]
    ELSE
        LET producer == tuples[i].k
            atTrackingVersion == get(s.consumers[producer], consumer)
        IN  IF producer = skipProducer
            THEN PollEach(s, consumer, tuples, i + 1, skipProducer)
            ELSE IF atTrackingVersion # s.trackingVersion[consumer]
            THEN \* This dependency edge is stale, so remove it.
                 PollEach([s EXCEPT !.producers[consumer] = delete(@, producer),
                                    !.consumers[producer] = delete(@, consumer)],
                          consumer, tuples, i + 1, skipProducer)
            ELSE
                LET t == Call("producerPollStatus", s, <<producer, tuples[i].v>>)
                IN  IF t.err # "none" \/ t.changed THEN t
                    ELSE PollEach(t, consumer, tuples, i + 1, skipProducer)

consumerPollValueStatus(s0, consumer, notifier) ==
    LET s == Log(s0, "poll", consumer) IN
    IF notifier # "true"
    THEN
        LET lastSeen == get(s.producers[consumer], notifier)
            atTrackingVersion == get(s.consumers[notifier], consumer)
            polled == atTrackingVersion = s.trackingVersion[consumer]
            t == IF polled THEN Call("producerPollStatus", s, <<notifier, lastSeen>>)
                 ELSE s
        IN  IF polled /\ (t.err # "none" \/ t.changed) THEN t
            ELSE IF t.producers[consumer].size = 1
            THEN [t EXCEPT !.changed = FALSE]
            ELSE PollEach(t, consumer, toTuples(t.producers[consumer]), 1, notifier)
    ELSE PollEach(s, consumer, toTuples(s.producers[consumer]), 1, noConsumer)

\* The loop of producerNotifyConsumers that removes a stale edge from the
\* producer's consumers map and leaves it in the consumer's producers map.
NotifyEachOneSided(s, producer, tuples, i) ==
    IF i > Len(tuples) THEN s
    ELSE
        LET consumerRef == tuples[i].k
            consumer == deref(s, consumerRef)
        IN  IF consumer = noConsumer \/ s.trackingVersion[consumer] # tuples[i].v
            THEN NotifyEach([s EXCEPT !.consumers[producer] = delete(@, consumerRef)],
                            producer, tuples, i + 1)
            ELSE
                LET t == Call("notify", s, <<consumer, producer>>)
                IN  IF t.err # "none" THEN t
                    ELSE NotifyEach(t, producer, tuples, i + 1)

\* The loop of producerNotifyConsumers that skips the consumers that were
\* reclaimed and leaves their entries where they are.
NotifyEachKeepsDead(s, producer, tuples, i) ==
    IF i > Len(tuples) THEN s
    ELSE
        LET consumerRef == tuples[i].k
            consumer == deref(s, consumerRef)
        IN  IF consumer = noConsumer
            THEN NotifyEach(s, producer, tuples, i + 1)
            ELSE IF s.trackingVersion[consumer] # tuples[i].v
            THEN NotifyEach([s EXCEPT !.consumers[producer] = delete(@, consumerRef),
                                      !.producers[consumer] = delete(@, producer)],
                            producer, tuples, i + 1)
            ELSE
                LET t == Call("notify", s, <<consumer, producer>>)
                IN  IF t.err # "none" THEN t
                    ELSE NotifyEach(t, producer, tuples, i + 1)

\* The loop of producerNotifyConsumers that notifies every live consumer,
\* also one whose edge was recorded at an earlier trackingVersion.
NotifyEachUnchecked(s, producer, tuples, i) ==
    IF i > Len(tuples) THEN s
    ELSE
        LET consumerRef == tuples[i].k
            consumer == deref(s, consumerRef)
        IN  IF consumer = noConsumer
            THEN NotifyEach([s EXCEPT !.consumers[producer] = delete(@, consumerRef)],
                            producer, tuples, i + 1)
            ELSE
                LET t == Call("notify", s, <<consumer, producer>>)
                IN  IF t.err # "none" THEN t
                    ELSE NotifyEach(t, producer, tuples, i + 1)

\* The loop of producerNotifyConsumers over the tuples the iteration of
\* producer.consumers started with, from tuples[i] on.
NotifyEach(s, producer, tuples, i) ==
    IF i > Len(tuples) THEN s
    ELSE
        LET consumerRef == tuples[i].k
            consumer == deref(s, consumerRef)
        IN  IF consumer = noConsumer
            THEN NotifyEach([s EXCEPT !.consumers[producer] = delete(@, consumerRef)],
                            producer, tuples, i + 1)
            ELSE IF s.trackingVersion[consumer] # tuples[i].v
            THEN NotifyEach([s EXCEPT !.consumers[producer] = delete(@, consumerRef),
                                      !.producers[consumer] = delete(@, producer)],
                            producer, tuples, i + 1)
            ELSE
                LET t == Call("notify", s, <<consumer, producer>>)
                IN  IF t.err # "none" THEN t
                    ELSE NotifyEach(t, producer, tuples, i + 1)

\* When a value producer is changed, this notifies the known consumers of it.
producerNotifyConsumers(s, producer) ==
    NotifyEach(s, producer, toTuples(s.consumers[producer]), 1)

\* notify that marks the node stale and does not tell the node's consumers.
notifyWithoutPropagation(s0, n, notifier) ==
    LET s == Log(s0, "notify", n)
    IN  IF s.stale[n] # "false" THEN s
        ELSE IF s._value[n] = COMPUTING
        THEN Throw(s, "Pipeline marked changed while calculating")
        ELSE [s EXCEPT !.stale[n] = notifier]

notify(s0, n, notifier) ==
    LET s == Log(s0, "notify", n)
    IN  IF s.stale[n] # "false" THEN s
        ELSE IF s._value[n] = COMPUTING
        THEN Throw(s, "Pipeline marked changed while calculating")
        ELSE Call("producerNotifyConsumers", [s EXCEPT !.stale[n] = notifier], <<n>>)

\* setValue that compares nothing: a new version and a notification always.
setValueUnconditional(s, leaf, newValue) ==
    Call("producerNotifyConsumers",
        [s EXCEPT !._value[leaf] = newValue, !.valueVersion[leaf] = @ + 1],
        <<leaf>>)

\* setValue that notifies the consumers also of an identical value.
setValueAlwaysNotifies(s, leaf, newValue) ==
    IF newValue # s._value[leaf]
    THEN Call("producerNotifyConsumers",
             [s EXCEPT !._value[leaf] = newValue, !.valueVersion[leaf] = @ + 1],
             <<leaf>>)
    ELSE Call("producerNotifyConsumers", s, <<leaf>>)

setValue(s, leaf, newValue) ==
    IF newValue # s._value[leaf]
    THEN Call("producerNotifyConsumers",
             [s EXCEPT !._value[leaf] = newValue, !.valueVersion[leaf] = @ + 1],
             <<leaf>>)
    ELSE s

Call(f, s, a) ==
    CASE f = "value" -> value(s, a[1])
      [] f = "checkForActuallyChangedValue" -> checkForActuallyChangedValue(s, a[1])
      [] f = "recomputeValue" -> recomputeValue(s, a[1])
      [] f = "calculate" -> calculate(s, a[1])
      [] f = "consumerPollValueStatus" -> consumerPollValueStatus(s, a[1], a[2])
      [] f = "producerPollStatus" -> producerPollStatus(s, a[1], a[2])
      [] f = "notify" -> notify(s, a[1], a[2])
      [] f = "producerNotifyConsumers" -> producerNotifyConsumers(s, a[1])
      [] f = "setValue" -> setValue(s, a[1], a[2])

\* The updaters the host passes to updateValue.
Updaters == {"increment", "identity"}
Apply(updater, oldValue) ==
    IF updater = "increment" THEN (oldValue + 1) % MOD_FACTOR ELSE oldValue

updateValue(s, leaf, updater) == setValue(s, leaf, Apply(updater, s._value[leaf]))

\* mutateValue that increments the version and tells no consumer.
mutateValueSilent(s, leaf) == [s EXCEPT !.valueVersion[leaf] = @ + 1]

\* The held value is a number: a mutator cannot change it, and what is held
\* after the call is what was held before.
mutateValue(s, leaf) ==
    producerNotifyConsumers([s EXCEPT !.valueVersion[leaf] = @ + 1], leaf)

\* ----------------------------------------------------------- the host calls
LeafValues == 0 .. (MOD_FACTOR - 1)

\* The leaves' values as a read of watch left them (read: there was one),
\* whether a call changed the value a leaf holds since (written), whether
\* mutateValue was called since (mutated), and the trackingVersion that read
\* left watch with (tv; 1 after construction).
LeafSnapshot(read, vals, written) ==
    [read |-> read, vals |-> [l \in Leaves |-> vals[l]], written |-> written,
     mutated |-> FALSE, tv |-> 1]

LeafWritten(t) == \E l \in Leaves : t._value[l] # _value[l]

RECURSIVE Sum(_, _)
Sum(f, S) ==
    IF S = {} THEN 0
    ELSE LET x == CHOOSE y \in S : TRUE IN f[x] + Sum(f, S \ {x})

\* How often the leaves were written: every write adds one to a valueVersion.
Writes == Sum(valueVersion, Leaves) - Cardinality(Leaves)

\* What the host called and what the node held before the call; for a read
\* of watch also how the leaves stood before the call, compared with what the
\* last read of watch left, and whether watch was left alone since that read
\* (untouched: no other read recomputed it).
Op(op, n, arg) ==
    LET again == op = "read" /\ n = watch /\ seen.read
    IN  [op |-> op, node |-> n, arg |-> arg, old |-> _value[n],
         again |-> again,
         sameValues |-> again /\ seen.vals = [l \in Leaves |-> _value[l]],
         unwritten |-> again /\ ~seen.written,
         unmutated |-> again /\ ~seen.mutated,
         untouched |-> again /\ seen.tv = trackingVersion[n]]

\* The engine state a top-level call left behind becomes the state.
Commit(t) ==
    /\ _value' = t._value
    /\ valueVersion' = t.valueVersion
    /\ trackingVersion' = t.trackingVersion
    /\ stale' = t.stale
    /\ consumers' = t.consumers
    /\ producers' = t.producers
    /\ activeConsumer' = t.activeConsumer
    /\ reclaimed' = t.reclaimed
    /\ err' = t.err
    /\ ret' = IF t.err = "none" THEN t.ret ELSE 0
    /\ trace' = t.trace
    /\ graph' = graph
    /\ watch' = watch
    /\ lm' = lm

\* The engine state once the host has built the graph: new ValuePipeline(v)
\* for every leaf, a new Pipeline for every other node.
Constructed(leafValues) ==
    [_value |-> [n \in Nodes |-> IF n \in Leaves THEN leafValues[n] ELSE UNSET],
     valueVersion |-> [n \in Nodes |-> 1],
     trackingVersion |-> [n \in Nodes |-> IF n \in Pipelines THEN 1 ELSE 0],
     stale |-> [n \in Nodes |-> IF n \in Pipelines THEN "true" ELSE "false"],
     consumers |-> [n \in Nodes |-> NewLinearMap],
     producers |-> [n \in Nodes |-> NewLinearMap],
     activeConsumer |-> noConsumer, reclaimed |-> {},
     err |-> "none", ret |-> 0, changed |-> FALSE, trace |-> << >>]

Init ==
    /\ graph \in Graphs
    /\ \E leafValues \in [Leaves -> LeafValues] :
         LET new == Constructed(leafValues)
         IN  /\ _value = new._value
             /\ valueVersion = new.valueVersion
             /\ trackingVersion = new.trackingVersion
             /\ stale = new.stale
             /\ consumers = new.consumers
             /\ producers = new.producers
             /\ activeConsumer = new.activeConsumer
             /\ reclaimed = new.reclaimed
    /\ err = "none"
    /\ ret = 0
    /\ trace = << >>
    /\ watch \in Pipelines
    /\ seen = LeafSnapshot(FALSE, _value, FALSE)
    /\ lm = NewLM
    /\ lastOp = [op |-> "new", node |-> watch, arg |-> 0, old |-> UNSET,
                 again |-> FALSE, sameValues |-> FALSE, unwritten |-> FALSE,
                 unmutated |-> FALSE, untouched |-> FALSE]

\* The host reads n.value.
Read(n) ==
    /\ n \notin reclaimed
    /\ LET t == value(State, n)
       IN  /\ Commit(t)
           /\ seen' = IF n = watch
                      THEN [LeafSnapshot(TRUE, t._value, FALSE) EXCEPT
                               !.tv = t.trackingVersion[watch]]
                      ELSE [seen EXCEPT !.written = @ \/ LeafWritten(t)]
    /\ lastOp' = Op("read", n, 0)

\* The host calls leaf.setValue(newValue).
SetValue(leaf, newValue) ==
    /\ Writes < MaxWrites
    /\ LET t == setValue(State, leaf, newValue)
       IN  /\ Commit(t)
           /\ seen' = [seen EXCEPT !.written = @ \/ LeafWritten(t)]
    /\ lastOp' = Op("setValue", leaf, newValue)

\* The host calls leaf.updateValue(updater).
UpdateValue(leaf, updater) ==
    /\ Writes < MaxWrites
    /\ LET t == updateValue(State, leaf, updater)
       IN  /\ Commit(t)
           /\ seen' = [seen EXCEPT !.written = @ \/ LeafWritten(t)]
    /\ lastOp' = Op("updateValue", leaf, Apply(updater, _value[leaf]))

\* The host calls leaf.mutateValue(mutator).
MutateValue(leaf) ==
    /\ Writes < MaxWrites
    /\ LET t == mutateValue(State, leaf)
       IN  /\ Commit(t)
           /\ seen' = [seen EXCEPT !.mutated = TRUE]
    /\ lastOp' = Op("mutateValue", leaf, _value[leaf])

\* The host drops its reference to an output Pipeline (one that no calculate()
\* reads, so that nothing else refers to it but WeakRefs) and the garbage
\* collector reclaims it: its WeakRef now derefs to undefined.
Reclaim(n) ==
    /\ n \in Pipelines \ reclaimed
    /\ \A m \in Pipelines :
           \A i \in 1..Len(graph[m].deps) : graph[m].deps[i] # n
    /\ reclaimed' = reclaimed \cup {n}
    /\ lastOp' = Op("reclaim", n, 0)
    /\ err' = "none"
    /\ ret' = 0
    /\ trace' = << >>
    /\ UNCHANGED <<graph, watch, _value, valueVersion, trackingVersion, stale,
                   consumers, producers, activeConsumer, seen, lm>>

Next ==
    \/ \E n \in Nodes : Read(n)
    \/ \E leaf \in Leaves, newValue \in LeafValues : SetValue(leaf, newValue)
    \/ \E leaf \in Leaves, updater \in Updaters : UpdateValue(leaf, updater)
    \/ \E leaf \in Leaves : MutateValue(leaf)
    \/ \E n \in Nodes : Reclaim(n)

Spec == Init /\ [][Next]_vars

\* ------------------------------------------------- a LinearMap on its own
engineVars == <<graph, watch, _value, valueVersion, trackingVersion, stale,
                consumers, producers, activeConsumer, reclaimed, lastOp, err,
                ret, trace, seen>>

\* One engine, never called, and a new LinearMap.
LMInit == Init /\ graph = ChainGraph /\ watch = "c" /\ \A l \in Leaves : _value[l] = 0

LMSet(key, v) ==
    /\ lm' = [lm EXCEPT !.map = set(@, key, v), !.ref[key] = v,
                        !.reused = @ \/ (/\ lm.ref[key] = undefined
                                         /\ FirstIndex(lm.map.internalArray, null) # 0)]
    /\ UNCHANGED engineVars

LMDelete(key) ==
    /\ lm' = [lm EXCEPT !.map = delete(@, key), !.ref[key] = undefined]
    /\ UNCHANGED engineVars

LMDefragment ==
    /\ lm' = [lm EXCEPT !.map = defragment(@)]
    /\ UNCHANGED engineVars

\* for (const [k, v] of map): the iterator yields from this.toTuples().
LMIterate ==
    /\ ~lm.iterating
    /\ lm' = [lm EXCEPT !.iterating = TRUE, !.tuples = toTuples(lm.map),
                        !.pos = 0, !.live = lm.ref]
    /\ UNCHANGED engineVars

\* The loop takes the next tuple.
LMYield ==
    /\ lm.iterating /\ lm.pos < Len(lm.tuples)
    /\ lm' = [lm EXCEPT !.pos = @ + 1]
    /\ UNCHANGED engineVars

\* The loop is over.
LMDone ==
    /\ lm.iterating /\ lm.pos = Len(lm.tuples)
    /\ lm' = [lm EXCEPT !.iterating = FALSE, !.tuples = << >>, !.pos = 0,
                        !.live = [k \in LMKeys |-> undefined]]
    /\ UNCHANGED engineVars

LMNext ==
    \/ \E key \in LMKeys, v \in LMValues : LMSet(key, v)
    \/ \E key \in LMKeys : LMDelete(key)
    \/ LMDefragment
    \/ LMIterate
    \/ LMYield
    \/ LMDone

LinearMapSpec == LMInit /\ [][LMNext]_vars

\* ------------------------------------------------------------------ claims
Events(kind, n) ==
    {i \in 1..Len(trace) : trace[i].ev = kind /\ trace[i].node = n}

\* How often calculate() ran in the last top-level call.
Calculations == Cardinality({i \in 1..Len(trace) : trace[i].ev = "calculate"})

\* The nodes calculate() of m reads, and everything read through them.
DepsOf(m) == {graph[m].deps[i] : i \in 1..Len(graph[m].deps)}

RECURSIVE ReadThrough(_)
ReadThrough(S) ==
    LET T == S \cup UNION {DepsOf(m) : m \in S}
    IN  IF T = S THEN S ELSE ReadThrough(T)

\* calculate() of n transitively reads n.
OnCycle(n) == n \in ReadThrough(DepsOf(n))

Acyclic == \A n \in Nodes : ~OnCycle(n)

\* Every calculate() of the graph only reads and returns.
Pure == \A n \in Nodes : graph[n].kind \in {"value", "sum", "cond"}

\* What reading n returns in a freshly built graph with the current leaf values.
FreshRead(n) == value(Constructed(_value), n).ret

\* C1. Lazy correctness: in an acyclic graph of pure calculate() functions,
\* after any sequence of writes and reads, a read of a Pipeline returns, and
\* returns the value a freshly built graph with the same leaf values returns
\* for that node.
C1_LazyCorrectness ==
    (lastOp.op = "read" /\ lastOp.node \in Pipelines /\ Acyclic /\ Pure)
        => (err = "none" /\ ret = FreshRead(lastOp.node))

\* A read after MaxWrites writes that recomputed a node that had a value.
C1_Witness ==
    /\ lastOp.op = "read" /\ lastOp.node \in Pipelines /\ Acyclic /\ Pure
    /\ Writes = MaxWrites
    /\ \E i \in 1..Len(trace) :
           trace[i].ev = "recomputeValue" /\ trace[i].val # UNSET
    /\ ret = 1

\* Producer p of the polled consumer is unchanged: its valueVersion is still
\* the recorded one, or it was recomputed from the recorded version on and
\* holds the value it held before.
UnchangedSince(p, poll) ==
    \/ valueVersion[p] = get(poll.rec, p)
    \/ \E i \in Events("recomputeValue", p) :
           /\ trace[i].vv = get(poll.rec, p)
           /\ trace[i].val # UNSET
           /\ _value[p] = trace[i].val

\* C2. Early cutoff: when the producers a stale node D recorded are unchanged
\* (a producer P that recomputed to a value identical to its previous one
\* counts as unchanged), the read marks D clean by polling and runs D's
\* calculate() zero times; and a node that has a value is recomputed only
\* when some producer it currently records has another valueVersion than the
\* one recorded on the edge.
C2_EarlyCutoff ==
    /\ \A i \in 1..Len(trace) :
           (/\ trace[i].ev = "poll"
            /\ err = "none"
            /\ \A p \in trace[i].cur : UnchangedSince(p, trace[i]))
               => /\ stale[trace[i].node] = "false"
                  /\ \A j \in Events("calculate", trace[i].node) : j < i
    /\ \A i \in 1..Len(trace) :
           (trace[i].ev = "recomputeValue" /\ trace[i].val # UNSET)
               => trace[i].chg

\* D was polled, its producer P recomputed to the identical value, and D was
\* marked clean without a calculate().
C2_Witness ==
    \E i \in 1..Len(trace) : \E P \in Pipelines :
        /\ trace[i].ev = "poll" /\ err = "none"
        /\ P \in trace[i].cur
        /\ \E k \in Events("recomputeValue", P) :
               k > i /\ trace[k].val # UNSET /\ trace[k].val = _value[P]
        /\ Events("calculate", trace[i].node) = {}
        /\ stale[trace[i].node] = "false"

\* C3 as claimed: a second read of a node that finds every leaf holding the
\* value it held at the first read runs calculate() zero times, whatever
\* setValue calls happened in between (with pure calculate() functions, and
\* mutateValue not called in between).
C3_AsClaimed ==
    (lastOp.again /\ lastOp.sameValues /\ lastOp.unmutated /\ Pure)
        => Calculations = 0

\* C3. Minimal recomputation: a second read of a node runs calculate() zero
\* times if, since the first read, no call changed the value a leaf holds and
\* mutateValue was not called.
C3_MinimalRecomputation ==
    (lastOp.again /\ lastOp.unwritten /\ lastOp.unmutated) => Calculations = 0

\* A second read of a node that was calculated before, with no write between.
C3_Witness ==
    /\ lastOp.again /\ lastOp.unwritten /\ lastOp.unmutated /\ Calculations = 0
    /\ trackingVersion[watch] > 1 /\ Writes > 0

\* The engine's own fields.
engine == <<_value, valueVersion, trackingVersion, stale, consumers, producers,
            activeConsumer>>

\* C4. setValue(v) with v identical to the leaf's current value changes
\* nothing: no version, no consumers map, no stale flag changes, and notify is
\* not called.
C4_IdenticalWriteIsNoOp ==
    [][(lastOp'.op = "setValue" /\ lastOp'.arg = lastOp'.old)
          => (UNCHANGED engine /\ trace' = << >>)]_vars

\* setValue(v) with the value held, on a leaf that a clean Pipeline consumes.
C4_Witness ==
    /\ lastOp.op = "setValue" /\ lastOp.arg = lastOp.old
    /\ \E c \in Pipelines :
           /\ stale[c] = "false"
           /\ get(consumers[lastOp.node], c) = trackingVersion[c]

\* C5. Cycle detection: a read of a Pipeline whose calculate() transitively
\* reads that same node throws 'Pipeline is circular', and a read of a leaf
\* still returns the leaf's value afterwards.
C5_CycleDetection ==
    /\ (lastOp.op = "read" /\ lastOp.node \in Pipelines /\ OnCycle(lastOp.node))
           => err = "Pipeline is circular"
    /\ (lastOp.op = "read" /\ lastOp.node \in Leaves)
           => (err = "none" /\ ret = _value[lastOp.node])

\* A leaf read that returned after a read of a node on a cycle had failed.
C5_Witness ==
    /\ lastOp.op = "read" /\ lastOp.node \in Leaves /\ err = "none"
    /\ \E n \in Pipelines : OnCycle(n) /\ _value[n] = COMPUTING

\* C6 as claimed: whenever a Pipeline that is Computing receives a notify from
\* a producer it has read, the notify throws 'Pipeline marked changed while
\* calculating', and the error leaves the enclosing read.
C6_AsClaimed ==
    \A i \in 1..Len(trace) :
        (trace[i].ev = "notify" /\ trace[i].val = COMPUTING)
            => err = "Pipeline marked changed while calculating"

\* C7. activeConsumer is undefined between the top-level calls, whether the
\* last one returned or threw, so that the read of a producer by the host
\* registers no consumer with that producer.
C7_ActiveConsumerRestored ==
    /\ [](activeConsumer = noConsumer)
    /\ [][lastOp'.op = "read"
             => Keys(consumers'[lastOp'.node]) \subseteq Keys(consumers[lastOp'.node])]_vars

\* A read that threw from a calculate() nested in another calculate().
C7_Witness ==
    /\ lastOp.op = "read" /\ err # "none"
    /\ \E i \in 1..Len(trace) :
           trace[i].ev = "recomputeValue" /\ trace[i].ac # noConsumer

\* C8 as claimed: between the top-level calls no Pipeline's cached value is
\* the Computing sentinel, also after reads that failed.
C8_AsClaimed == \A n \in Pipelines : _value[n] # COMPUTING

\* The calculate() calls of n among the first k entries of a trace.
CalculationsOf(tr, n, k) ==
    Cardinality({i \in 1..k : tr[i].ev = "calculate" /\ tr[i].node = n})

\* C9. No valueVersion and no trackingVersion ever decreases, and a
\* trackingVersion increases by exactly one per recomputation, before
\* calculate() runs: every calculate() of a call finds the trackingVersion
\* one above what the calculate() before it found.
C9_MonotonicVersions ==
    [][\A n \in Nodes :
          /\ valueVersion'[n] >= valueVersion[n]
          /\ trackingVersion'[n] >= trackingVersion[n]
          /\ trackingVersion'[n] =
                 trackingVersion[n] + CalculationsOf(trace', n, Len(trace'))
          /\ \A k \in 1..Len(trace') :
                 (trace'[k].ev = "calculate" /\ trace'[k].node = n)
                     => trace'[k].tv = trackingVersion[n] + CalculationsOf(trace', n, k)
      ]_vars

\* A read that recomputed a node for at least the second time and failed.
C9_Witness ==
    /\ err # "none"
    /\ \E k \in 1..Len(trace) : trace[k].ev = "calculate" /\ trace[k].tv >= 3

\* Every recomputation of the trace that returned held, when it returned, the
\* valueVersion it started with if it held the value it started with.
RecomputeKeepsVersion(tr) ==
    \A i \in 1..Len(tr) : \A j \in (i + 1)..Len(tr) :
        (/\ tr[i].ev = "recomputeValue" /\ tr[j].ev = "recomputed"
         /\ tr[i].node = tr[j].node
         /\ \A k \in (i + 1)..(j - 1) :
                ~(tr[k].ev = "recomputed" /\ tr[k].node = tr[i].node)
         /\ tr[i].val = tr[j].val)
            => tr[i].vv = tr[j].vv

\* C10 as claimed: whatever the operation (setValue, updateValue, mutateValue,
\* recompute), a producer that holds after it the value it held before has
\* the valueVersion it had before.
C10_AsClaimed ==
    [][/\ \A l \in Leaves : _value'[l] = _value[l] => valueVersion'[l] = valueVersion[l]
       /\ RecomputeKeepsVersion(trace')]_vars

\* C10. After setValue, updateValue and a recomputation, a producer that
\* holds the value it held before has the valueVersion it had before;
\* mutateValue leaves the held value identical and increments valueVersion.
C10_VersionFollowsValue ==
    [][/\ lastOp'.op # "mutateValue" =>
              \A l \in Leaves : _value'[l] = _value[l] => valueVersion'[l] = valueVersion[l]
       /\ lastOp'.op = "mutateValue" =>
              /\ _value'[lastOp'.node] = _value[lastOp'.node]
              /\ valueVersion'[lastOp'.node] = valueVersion[lastOp'.node] + 1
       /\ RecomputeKeepsVersion(trace')]_vars

\* A recomputation that returned the value the node held before.
C10_Witness ==
    \E i \in 1..Len(trace) : \E j \in (i + 1)..Len(trace) :
        /\ trace[i].ev = "recomputeValue" /\ trace[j].ev = "recomputed"
        /\ trace[i].node = trace[j].node
        /\ trace[i].val = trace[j].val

\* C11. Identity stability: a node was read, leaves were changed and changed
\* back (every leaf holds what it held at that read, and the node was not
\* recomputed in between), and the node is read again.  The read runs the
\* node's calculate() at most once, exactly once when a producer the node
\* recorded has another valueVersion; the result is identical to the cached
\* value, so the read returns the prior value and the node's valueVersion is
\* the one it had; and a read that follows with no write in between returns
\* that value with no calculate() at all.
C11_IdentityStability ==
    /\ (/\ lastOp.again /\ lastOp.sameValues /\ lastOp.unmutated
        /\ lastOp.untouched /\ lastOp.old >= 0 /\ Pure)
           => /\ err = "none" /\ ret = lastOp.old /\ _value[watch] = lastOp.old
              /\ Cardinality(Events("calculate", watch)) <= 1
              /\ (trace # << >> /\ trace[1].chg)
                     => Cardinality(Events("calculate", watch)) = 1
              /\ \A i \in Events("recomputeValue", watch) :
                     trace[i].vv = valueVersion[watch]
    /\ (/\ lastOp.again /\ lastOp.unwritten /\ lastOp.unmutated
        /\ lastOp.old >= 0 /\ Pure)
           => (err = "none" /\ ret = lastOp.old /\ Calculations = 0)

\* A leaf the node reads was set away and set back, and the read of the node
\* ran the node's calculate() once and kept value and valueVersion.
C11_Witness ==
    /\ lastOp.again /\ lastOp.sameValues /\ lastOp.unmutated /\ lastOp.untouched
    /\ ~lastOp.unwritten /\ Pure
    /\ Cardinality(Events("calculate", watch)) = 1
    /\ ret = lastOp.old
    /\ \E i \in Events("recomputed", watch) : trace[i].vv = valueVersion[watch]
    /\ \E l \in Leaves : l \in CurrentProducers(State, watch) /\ valueVersion[l] = 3

\* The producers whose .value the calculate() of n reads when it returns,
\* given what the producers hold.
ReadsOf(n) ==
    LET deps == graph[n].deps
    IN  CASE graph[n].kind = "sum" -> DepsOf(n)
          [] graph[n].kind = "cond" ->
                {deps[1], IF _value[deps[1]] = 1 THEN deps[2] ELSE deps[3]}
          [] OTHER -> {deps[1]}

\* C12 as claimed: when a recomputation of a Pipeline returns, the keys of
\* the node's producers map are exactly the producers read during that
\* recomputation.
C12_AsClaimed ==
    \A i \in 1..Len(trace) :
        trace[i].ev = "recomputed" => Keys(trace[i].rec) = ReadsOf(trace[i].node)

\* C12. When a recomputation of a Pipeline returns, the producers read during
\* it are exactly the producers that record the node at its current
\* trackingVersion, and each of them is a key of the node's producers map;
\* the map may hold further keys, read in earlier recomputations only.
C12_RecordedSet ==
    \A i \in 1..Len(trace) :
        trace[i].ev = "recomputed"
            => /\ trace[i].cur = ReadsOf(trace[i].node)
               /\ ReadsOf(trace[i].node) \subseteq Keys(trace[i].rec)
               /\ \A p \in ReadsOf(trace[i].node) :
                      get(consumers[p], trace[i].node) = trace[i].tv

\* A conditional node was recomputed after its condition changed: it reads
\* another producer than before, and the one it read before is still a key.
C12_Witness ==
    \E i \in 1..Len(trace) :
        /\ trace[i].ev = "recomputed" /\ graph[trace[i].node].kind = "cond"
        /\ trace[i].cur = ReadsOf(trace[i].node)
        /\ Keys(trace[i].rec) = DepsOf(trace[i].node)

\* The nodes of S and every producer recorded, at the recording node's
\* current trackingVersion, by a node of S or by such a producer in turn.
RECURSIVE Recorded(_)
Recorded(S) ==
    LET T == S \cup UNION {CurrentProducers(State, m) : m \in S}
    IN  IF T = S THEN S ELSE Recorded(T)

WriteOps == {"setValue", "updateValue", "mutateValue"}

\* A read of a clean Pipeline returns what is cached and calculates nothing.
CleanReadIsCached ==
    (lastOp'.op = "read" /\ lastOp'.node \in Pipelines /\ stale[lastOp'.node] = "false")
        => (err' = "none" /\ ret' = _value[lastOp'.node] /\ trace' = << >>)

\* The call before this one ran the calculate() of n, and no calculate() of
\* another node ran inside it: all that was read while it ran is ReadsOf(n).
CalculatedAlone(n) ==
    \E i \in Events("calculate", n) : \E j \in Events("recomputed", n) :
        /\ i < j
        /\ \A k \in (i + 1)..(j - 1) : trace[k].ev # "calculate"
        /\ \A k \in (j + 1)..Len(trace) :
               ~(trace[k].ev = "calculate" /\ trace[k].node = n)

\* C13 as claimed: a write of a leaf that a clean Pipeline did not read in its
\* most recent calculate() (here: calculate() functions that only read, the
\* call before ran that calculate(), and the leaf was not read while it ran)
\* leaves the node clean, and the node's next read returns the cached value
\* with no calculate().
C13_AsClaimed ==
    [][/\ lastOp'.op \in WriteOps =>
              \A n \in Pipelines :
                  (/\ stale[n] = "false" /\ CalculatedAlone(n) /\ Pure
                   /\ lastOp'.node \notin ReadsOf(n))
                      => (stale'[n] = "false" /\ _value'[n] = _value[n])
       /\ CleanReadIsCached]_vars

\* C13. A write of a leaf that is recorded neither by a clean Pipeline, at its
\* current trackingVersion, nor by any producer the node so records, directly
\* or through other nodes, leaves the node clean and its cached value alone;
\* and a read of a clean node returns the cached value with no calculate().
C13_NoSpuriousWork ==
    [][/\ lastOp'.op \in WriteOps =>
              \A n \in Pipelines :
                  (stale[n] = "false" /\ lastOp'.node \notin Recorded({n}))
                      => (stale'[n] = "false" /\ _value'[n] = _value[n])
       /\ CleanReadIsCached]_vars

\* A conditional node now reads another branch; the leaf of the branch it read
\* in its earlier calculation was written, which pruned the edge and left the
\* node clean.
C13_Witness ==
    /\ lastOp.op = "setValue" /\ lastOp.arg # lastOp.old
    /\ \E n \in Pipelines :
           /\ graph[n].kind = "cond" /\ stale[n] = "false"
           /\ trackingVersion[n] = 3
           /\ lastOp.node \in DepsOf(n) \ Keys(producers[n])
           /\ Keys(producers[n]) = ReadsOf(n)
           /\ consumers[lastOp.node].size = 0
           /\ consumers[lastOp.node].internalArray # << >>

\* The last call was a write that changed what the leaf holds, or a
\* mutateValue.
ChangingWrite ==
    \/ lastOp.op \in {"setValue", "updateValue"} /\ lastOp.arg # lastOp.old
    \/ lastOp.op = "mutateValue"

\* C14. Dead-consumer cleanup: after a value-changing setValue or a
\* mutateValue on a leaf, the leaf's consumers map holds no reclaimed consumer
\* and no consumer recorded at another trackingVersion than the consumer's
\* current one, its size is the number of entries left, and no live consumer
\* whose entry is gone still has the leaf in its producers map.
C14_DeadConsumerCleanup ==
    ChangingWrite =>
        LET p == lastOp.node
        IN  /\ \A c \in Keys(consumers[p]) :
                   c \notin reclaimed /\ get(consumers[p], c) = trackingVersion[c]
            /\ consumers[p].size = Cardinality(Keys(consumers[p]))
            /\ consumers[p].size = Len(toTuples(consumers[p]))
            /\ \A c \in Pipelines \ reclaimed :
                   p \in Keys(producers[c]) => c \in Keys(consumers[p])

\* The only consumer of a leaf was reclaimed and the leaf was then set to
\* another value: the consumer's entry is gone and consumers.size is 0.
C14_Witness ==
    /\ ChangingWrite
    /\ \E c \in reclaimed : lastOp.node \in Keys(producers[c])
    /\ consumers[lastOp.node].size = 0
    /\ consumers[lastOp.node].internalArray # << >>

\* No Pipeline has computed yet.
NothingComputed == \A n \in Pipelines : _value[n] = UNSET

\* Every Pipeline holds a value, and the call before this one was a setValue
\* that changed what leaf a holds, the only change since b and c recorded a.
ChangedOnce ==
    /\ lastOp.op = "setValue" /\ lastOp.node = "a" /\ lastOp.arg # lastOp.old
    /\ \A n \in Pipelines : _value[n] >= 0
    /\ \A n \in {"b", "c"} : valueVersion["a"] = get(producers[n], "a") + 1

\* C15. Glitch-free diamond: a top-level call runs the calculate() of each
\* Pipeline at most once, also of a node that is reached through several
\* paths; in the diamond a -> {b, c} -> d the first read of d runs the
\* calculate() of b, c and d once each, and so does the read of d that
\* follows a setValue changing a.
C15_GlitchFreeDiamond ==
    [][/\ \A n \in Pipelines : CalculationsOf(trace', n, Len(trace')) <= 1
       /\ (/\ graph = DiamondGraph /\ lastOp'.op = "read" /\ lastOp'.node = "d"
           /\ (NothingComputed \/ ChangedOnce))
              => /\ \A n \in Pipelines : CalculationsOf(trace', n, Len(trace')) = 1
                 /\ err' = "none"]_vars

\* The second read of d in the diamond, after a was set to another value: b,
\* c and d were each calculated for the second time, 6 calculate() in all.
C15_Witness ==
    /\ graph = DiamondGraph /\ lastOp.op = "read" /\ lastOp.node = "d"
    /\ Calculations = 3
    /\ \A n \in Pipelines : trackingVersion[n] = 3
    /\ valueVersion["a"] = 2

\* The recomputation of n that a trace records did not return.
Failed(tr, n) ==
    \E i \in 1..Len(tr) :
        /\ tr[i].ev = "recomputeValue" /\ tr[i].node = n
        /\ \A j \in (i + 1)..Len(tr) : ~(tr[j].ev = "recomputed" /\ tr[j].node = n)

\* C16. After a calculate() failed, the node and every node that was in its
\* calculate() at that time hold Computing and are still stale; a node holding
\* Computing keeps holding it, stays stale and is never calculated again;
\* a read of it throws 'Pipeline is circular', and so does a read of a
\* Pipeline whose calculate() reads it.
C16_FailedStaysComputing ==
    [][\A n \in Pipelines :
          /\ (err' # "none" /\ Failed(trace', n))
                 => (_value'[n] = COMPUTING /\ stale'[n] # "false")
          /\ _value[n] = COMPUTING
                 => /\ _value'[n] = COMPUTING /\ stale'[n] # "false"
                    /\ CalculationsOf(trace', n, Len(trace')) = 0
                    /\ (lastOp'.op = "read" /\ lastOp'.node = n)
                           => err' = "Pipeline is circular"
                    /\ (/\ lastOp'.op = "read" /\ lastOp'.node \in Pipelines
                        /\ graph[lastOp'.node].kind = "sum"
                        /\ n \in DepsOf(lastOp'.node))
                           => err' = "Pipeline is circular"
      ]_vars

\* A calculate() threw in an earlier read; the node was read again, through
\* its consumer, and the read threw 'Pipeline is circular'.
C16_Witness ==
    /\ graph = ThrowGraph /\ lastOp.op = "read" /\ lastOp.node = "c"
    /\ err = "Pipeline is circular"
    /\ _value["b"] = COMPUTING /\ Events("calculate", "b") = {}
    /\ trackingVersion["b"] >= 2

\* What calculate() of n returns when it reads what its producers hold now.
CalculateOn(n) ==
    LET deps == graph[n].deps
    IN  CASE graph[n].kind = "sum" -> Sum(_value, DepsOf(n)) % MOD_FACTOR
          [] graph[n].kind = "cond" ->
                IF _value[deps[1]] = 1 THEN _value[deps[2]] ELSE _value[deps[3]]
          [] OTHER -> _value[deps[1]]

\* No calculate() writes to a leaf, and none has failed.
NoWriteNoFailure ==
    /\ \A n \in Nodes : graph[n].kind # "write"
    /\ \A n \in Pipelines : _value[n] # COMPUTING

\* C17. Between the top-level calls, when no calculate() wrote to a leaf or
\* failed, every clean Pipeline is up to date: it holds what calculate()
\* returns on the values its producers hold, and every producer that records
\* it at its current trackingVersion is clean, if it is a Pipeline, and has
\* the valueVersion the node recorded.
C17_CleanIsUpToDate ==
    NoWriteNoFailure =>
        \A n \in Pipelines \ reclaimed :
            stale[n] = "false" =>
                /\ _value[n] = CalculateOn(n)
                /\ \A p \in Nodes :
                       get(consumers[p], n) = trackingVersion[n]
                           => /\ p \in Pipelines => stale[p] = "false"
                              /\ valueVersion[p] = get(producers[n], p)

\* After all the writes, a read of d in the diamond found d stale, polled its
\* producers and left d, b and c clean.
C17_Witness ==
    /\ graph = DiamondGraph /\ NoWriteNoFailure /\ Writes = MaxWrites
    /\ lastOp.op = "read" /\ lastOp.node = "d"
    /\ Events("poll", "d") # {}
    /\ \A n \in Pipelines : stale[n] = "false"
    /\ CurrentProducers(State, "d") = {"b", "c"}

\* C18. Edge symmetry: between the top-level calls, for every live Pipeline
\* c and every producer p, p is a key of c.producers exactly when c.ref is a
\* key of p.consumers, and the trackingVersion p.consumers records for c is
\* never greater than c.trackingVersion.
C18_EdgeSymmetry ==
    \A c \in Pipelines \ reclaimed : \A p \in Nodes :
        /\ p \in Keys(producers[c]) <=> c \in Keys(consumers[p])
        /\ get(consumers[p], c) <= trackingVersion[c]

\* A live consumer has a current edge to one producer and a stale edge, still
\* in both maps, to another.
C18_Witness ==
    \E c \in Pipelines \ reclaimed : \E p, q \in Nodes :
        /\ p \in Keys(producers[c]) /\ c \in Keys(consumers[p])
        /\ get(consumers[p], c) < trackingVersion[c]
        /\ q \in Keys(producers[c]) /\ get(consumers[q], c) = trackingVersion[c]

\* C20. Whenever consumerPollValueStatus is entered with a producer p as the
\* stale marker, p is a key of the consumer's producers map, with a recorded
\* valueVersion that is not undefined, and p.consumers records the consumer
\* at the consumer's current trackingVersion: p is always polled before it is
\* skipped.
C20_NotifierIsCurrent ==
    \A i \in 1..Len(trace) :
        (trace[i].ev = "poll" /\ trace[i].stale \notin {"true", "false"})
            => /\ trace[i].stale \in Keys(trace[i].rec)
               /\ get(trace[i].rec, trace[i].stale) # undefined
               /\ trace[i].stale \in trace[i].cur

\* A node marked stale by a Pipeline was polled: the marker was polled and
\* found unchanged, the other producer was polled next, and the node was
\* marked clean without a calculate().
C20_Witness ==
    \E i \in 1..Len(trace) :
        /\ trace[i].ev = "poll" /\ trace[i].stale \in Pipelines
        /\ Cardinality(trace[i].cur) = 2
        /\ err = "none"
        /\ stale[trace[i].node] = "false"
        /\ Events("calculate", trace[i].node) = {}

\* The entries of a key -> value map.
Entries(f) == {<<k, f[k]>> : k \in {h \in LMKeys : f[h] # undefined}}

\* C19. LinearMap behaves as a key -> value map under any sequence of set,
\* delete and defragment, also with deletes during an iteration and sets
\* that reuse a tombstoned slot: get(k) is the value of the last set(k) not
\* followed by delete(k), undefined otherwise; size is the number of live
\* keys; and an iteration yields every entry that was live when it started,
\* each exactly once.
C19_LinearMapIsAMap ==
    /\ \A k \in LMKeys : get(lm.map, k) = lm.ref[k]
    /\ lm.map.size = Cardinality(Entries(lm.ref))
    /\ {<<e.k, e.v>> : e \in {toTuples(lm.map)[i] : i \in 1..Len(toTuples(lm.map))}}
           = Entries(lm.ref)
    /\ Len(toTuples(lm.map)) = Cardinality(Entries(lm.ref))
    /\ lm.iterating =>
           /\ {<<lm.tuples[i].k, lm.tuples[i].v>> : i \in 1..Len(lm.tuples)}
                  = Entries(lm.live)
           /\ Len(lm.tuples) = Cardinality(Entries(lm.live))

\* An iteration over three entries has yielded them all; one of them was
\* deleted while it ran, and a set had reused a tombstoned slot before.
C19_Witness ==
    /\ lm.iterating /\ lm.pos = 3 /\ Len(lm.tuples) = 3 /\ lm.reused
    /\ lm.map.size = 2 /\ Len(lm.map.internalArray) = 3
    /\ \E i \in 1..3 : lm.ref[lm.tuples[i].k] = undefined

====
